---- MODULE Spec2Model ----
(***************************************************************************)
(* Model of the Channel class of urbit-airlock-ts (src/unnamed/part_001):  *)
(* request-id allocation, the two registries of outstanding operations,    *)
(* the acknowledgment decision of sendJSONToChannel, the lazy connection   *)
(* and the dispatch routine installed as eventSource.onmessage.            *)
(*                                                                         *)
(* JavaScript runs each call and each callback to completion, so poke,     *)
(* subscribe, unsubscribe, the completion of one HTTP request and the      *)
(* dispatch of one inbound event are one action each.                      *)
(*                                                                         *)
(* A JSON object is a TLA+ record; obj.hasOwnProperty(k) is k \in DOMAIN   *)
(* obj.  A Map is a function from its keys; Map.get on a missing key is    *)
(* undefined, which the model expresses as the key not being in DOMAIN.    *)
(* Calling a property of undefined throws a TypeError, which ends the      *)
(* handler at that statement.  The continuations the caller supplies are   *)
(* assumed to return normally.                                             *)
(***************************************************************************)
EXTENDS Integers, Sequences, FiniteSets, TLC

\* ---- bounds of the model ----
MaxCalls == 2      \* poke/subscribe/unsubscribe calls made in one behaviour
MaxEvents == 2     \* events the server pushes in one behaviour

\* ---- inputs ----
Apps == {"chat"}
Paths == {"/p"}
Cages == {[mark |-> "json", data |-> "x1"]}
ErrPayloads == {"bad-request"}
JsonPayloads == {"update2"}
ship == "zod"                     \* conn.ship

VARIABLES
  requestId,                 \* Channel.requestId
  eventSource,               \* Channel.eventSource: FALSE is null
  lastEventId,               \* Channel.lastEventId
  lastAcknowledgedEventId,   \* Channel.lastAcknowledgedEventId
  outstandingPokes,          \* Channel.outstandingPokes
  outstandingSubscriptions,  \* Channel.outstandingSubscriptions
  promises,                  \* the promise returned by each poke, by request id
  inflight,                  \* ids of the commands whose HTTP request is pending
  handed,                    \* the batch bodies handed to request(), in call order
  stream,                    \* the event in transit on the inbound stream, if any
  serverSeq,                 \* sequence id of the last event the server pushed
  opened,                    \* number of EventSource objects constructed
  calls,                     \* request id -> continuation name -> invocations
  everRegistered,            \* request ids that have had a registry entry
  handled,                   \* <<response kind>> of the event the last step
                             \* dispatched; << >> when it dispatched none
  failed,                    \* whether the last step was a request being rejected
  unackedEvent,              \* sequence id of the last event dispatched since
                             \* the last batch with an ack; 0 if there is none
  fired,                     \* the continuation invocations of the last step
  threw                      \* whether the last step ended in a TypeError

vars == <<requestId, eventSource, lastEventId, lastAcknowledgedEventId,
          outstandingPokes, outstandingSubscriptions, promises, inflight,
          handed, stream, serverSeq, opened, calls, everRegistered, handled,
          failed, unackedEvent, fired, threw>>

ContNames == {"onSuccess", "onFailure", "onError", "onEvent", "onQuit"}

\* ---- Map operations ----
EmptyMap == << >>

Has(m, k) == k \in DOMAIN m

MapSet(m, k, v) == [x \in DOMAIN m \cup {k} |-> IF x = k THEN v ELSE m[x]]

MapDelete(m, k) == [x \in DOMAIN m \ {k} |-> m[x]]

\* ---- request ids ----
nextIdValue(r) == r

\* nextId without the increment.
nextIdCounterStuck(r) == r

nextIdCounter(r) == r + 1

\* ---- handler records ----
\* The OutstandingPoke that poke registers: the resolve and reject functions
\* of the promise it returns.
OutstandingPoke(id) ==
  [onSuccess |-> [of |-> "promise", n |-> id, fn |-> "resolve"],
   onFailure |-> [of |-> "promise", n |-> id, fn |-> "reject"]]

\* The OutstandingSubscription the caller passes to subscribe: h is the
\* identity of the handlers object.
OutstandingSubscription(h) ==
  [mark |-> "json",
   onError |-> [of |-> "handlers", n |-> h, fn |-> "onError"],
   onEvent |-> [of |-> "handlers", n |-> h, fn |-> "onEvent"],
   onQuit |-> [of |-> "handlers", n |-> h, fn |-> "onQuit"]]

\* One invocation of a continuation: the record it was read from is the one
\* registered under request id `id`, `name` is the property read.
Invoke(id, name, fn, args) == [id |-> id, name |-> name, fn |-> fn, args |-> args]

\* ---- sendJSONToChannel ----
AckCommand(eventId) == [action |-> "ack", eventid |-> eventId]

\* A batch whose ack carries the acknowledged id where it should carry the
\* observed one.
SendBodyAcksOld(j, lastEv, lastAck) ==
  IF lastEv = lastAck THEN <<j>> ELSE <<AckCommand(lastAck), j>>

SendBody(j, lastEv, lastAck) ==
  IF lastEv = lastAck THEN <<j>> ELSE <<AckCommand(lastEv), j>>

SendLastEventId(lastEv, lastAck) ==
  IF lastEv = lastAck THEN lastEv ELSE lastAck

sendJSONToChannel(j) ==
  /\ handed' = Append(handed, SendBody(j, lastEventId, lastAcknowledgedEventId))
  /\ lastEventId' = SendLastEventId(lastEventId, lastAcknowledgedEventId)
  /\ inflight' = inflight \cup {j.id}
  /\ unackedEvent' = IF Len(handed'[Len(handed')]) > 1 THEN 0 ELSE unackedEvent
  /\ UNCHANGED lastAcknowledgedEventId

\* The command of a batch body is its last element.
Command(body) == body[Len(body)]

\* The request ids the server has been sent a command for.
HandedIds == {Command(handed[k]).id : k \in 1..Len(handed)}

\* The ids subscribe has returned to the caller.
SubscribedIds ==
  {Command(handed[k]).id : k \in {n \in 1..Len(handed) : Command(handed[n]).action = "subscribe"}}

\* The caller passes a new handlers object to each subscribe.
HandlerObjects == {Len(handed) + 1}

\* ---- promises ----
NewPromise == [state |-> "pending"]

\* resolve() and reject(e) settle a pending promise and do nothing to a
\* settled one.
Settle(p, inv) ==
  IF p.state # "pending" THEN p
  ELSE IF inv.fn.fn = "resolve" THEN [state |-> "fulfilled"]
  ELSE [state |-> "rejected", reason |-> inv.args[1]]

\* The promises after the invocations invs (a sequence) have run.
RECURSIVE RunPromises(_, _)
RunPromises(ps, invs) ==
  IF invs = << >> THEN ps
  ELSE LET inv == Head(invs) IN
       RunPromises(IF inv.fn.of = "promise"
                   THEN [ps EXCEPT ![inv.fn.n] = Settle(ps[inv.fn.n], inv)]
                   ELSE ps,
                   Tail(invs))

\* The invocation counts after the invocations invs have run.
RECURSIVE Count(_, _)
Count(c, invs) ==
  IF invs = << >> THEN c
  ELSE LET inv == Head(invs) IN
       Count([c EXCEPT ![inv.id][inv.name] = @ + 1], Tail(invs))

\* ---- the caller's operations ----
CanCall == Len(handed) < MaxCalls

\* poke without its outstandingPokes.set.
pokeRegisterSkipped(pokes, id) == pokes

pokeRegister(pokes, id) == MapSet(pokes, id, OutstandingPoke(id))

poke(app, cage) ==
  /\ CanCall
  /\ LET id == nextIdValue(requestId) IN
     /\ requestId' = nextIdCounter(requestId)
     /\ promises' = MapSet(promises, id, NewPromise)
     /\ outstandingPokes' = pokeRegister(outstandingPokes, id)
     /\ everRegistered' = everRegistered \cup DOMAIN outstandingPokes'
     /\ sendJSONToChannel([id |-> id, action |-> "poke", ship |-> ship,
                           app |-> app, mark |-> cage.mark, json |-> cage.data])
  /\ fired' = << >>
  /\ threw' = FALSE
  /\ failed' = FALSE
  /\ handled' = <<>>
  /\ UNCHANGED <<eventSource, outstandingSubscriptions, stream, serverSeq,
                 opened, calls>>

subscribeRegister(subs, id, handlers) == MapSet(subs, id, handlers)

subscribe(app, path, handlers) ==
  /\ CanCall
  /\ LET id == nextIdValue(requestId) IN
     /\ requestId' = nextIdCounter(requestId)
     /\ outstandingSubscriptions' =
          subscribeRegister(outstandingSubscriptions, id, handlers)
     /\ everRegistered' = everRegistered \cup DOMAIN outstandingSubscriptions'
     /\ sendJSONToChannel([id |-> id, action |-> "subscribe", ship |-> ship,
                           app |-> app, path |-> path])
  /\ fired' = << >>
  /\ threw' = FALSE
  /\ failed' = FALSE
  /\ handled' = <<>>
  /\ UNCHANGED <<eventSource, outstandingPokes, promises, stream, serverSeq,
                 opened, calls>>

\* unsubscribe that also drops the subscription's registry entry.
unsubscribeDeleting(subscription) ==
  /\ CanCall
  /\ LET id == nextIdValue(requestId) IN
     /\ requestId' = nextIdCounter(requestId)
     /\ sendJSONToChannel([id |-> id, action |-> "unsubscribe",
                           subscription |-> subscription])
  /\ outstandingSubscriptions' = MapDelete(outstandingSubscriptions, subscription)
  /\ fired' = << >>
  /\ threw' = FALSE
  /\ failed' = FALSE
  /\ handled' = <<>>
  /\ UNCHANGED <<eventSource, outstandingPokes, promises, stream, serverSeq,
                 opened, calls, everRegistered>>

unsubscribe(subscription) ==
  /\ CanCall
  /\ LET id == nextIdValue(requestId) IN
     /\ requestId' = nextIdCounter(requestId)
     /\ sendJSONToChannel([id |-> id, action |-> "unsubscribe",
                           subscription |-> subscription])
  /\ fired' = << >>
  /\ threw' = FALSE
  /\ failed' = FALSE
  /\ handled' = <<>>
  /\ UNCHANGED <<eventSource, outstandingPokes, outstandingSubscriptions,
                 promises, stream, serverSeq, opened, calls, everRegistered>>

\* ---- the outbound request completes ----
\* connectIfDisconnected that never constructs the EventSource.
connectIfDisconnectedNever == UNCHANGED <<eventSource, opened>>

\* connectIfDisconnected without the early return on an existing handle.
connectIfDisconnectedAlways ==
  /\ eventSource' = TRUE
  /\ opened' = opened + 1

connectIfDisconnected ==
  IF eventSource
  THEN UNCHANGED <<eventSource, opened>>
  ELSE /\ eventSource' = TRUE
       /\ opened' = opened + 1

\* A .then callback that also resolves the promise of the poke just sent.
RequestFulfilledResolves(id) ==
  /\ id \in inflight
  /\ inflight' = inflight \ {id}
  /\ failed' = FALSE
  /\ handled' = <<>>
  /\ connectIfDisconnected
  /\ promises' = [i \in DOMAIN promises |->
                    IF i = id THEN [state |-> "fulfilled"] ELSE promises[i]]
  /\ fired' = << >>
  /\ threw' = FALSE
  /\ UNCHANGED <<requestId, lastEventId, lastAcknowledgedEventId,
                 outstandingPokes, outstandingSubscriptions, handed,
                 stream, serverSeq, calls, everRegistered,
                 unackedEvent>>

\* request(...) is fulfilled: the .then callback runs.
RequestFulfilled(id) ==
  /\ id \in inflight
  /\ inflight' = inflight \ {id}
  /\ failed' = FALSE
  /\ handled' = <<>>
  /\ connectIfDisconnected
  /\ fired' = << >>
  /\ threw' = FALSE
  /\ UNCHANGED <<requestId, lastEventId, lastAcknowledgedEventId,
                 outstandingPokes, outstandingSubscriptions, promises, handed,
                 stream, serverSeq, calls, everRegistered,
                 unackedEvent>>

\* A rejection handler that opens the stream as the .then callback does.
RequestRejectedConnects(id) ==
  /\ id \in inflight
  /\ inflight' = inflight \ {id}
  /\ fired' = << >>
  /\ threw' = FALSE
  /\ failed' = TRUE
  /\ handled' = <<>>
  /\ connectIfDisconnected
  /\ UNCHANGED <<requestId, lastEventId, lastAcknowledgedEventId,
                 outstandingPokes, outstandingSubscriptions, promises, handed,
                 stream, serverSeq, calls, everRegistered, unackedEvent>>

\* A rejection handler that drops the registry entry of the failed command.
RequestRejectedForgets(id) ==
  /\ id \in inflight
  /\ inflight' = inflight \ {id}
  /\ fired' = << >>
  /\ threw' = FALSE
  /\ failed' = TRUE
  /\ handled' = <<>>
  /\ outstandingPokes' = MapDelete(outstandingPokes, id)
  /\ outstandingSubscriptions' = MapDelete(outstandingSubscriptions, id)
  /\ UNCHANGED <<requestId, eventSource, lastEventId, lastAcknowledgedEventId,
                 promises, handed, stream, serverSeq, opened, calls,
                 everRegistered, unackedEvent>>

\* request(...) is rejected: the .then callback does not run.
RequestRejected(id) ==
  /\ id \in inflight
  /\ inflight' = inflight \ {id}
  /\ fired' = << >>
  /\ threw' = FALSE
  /\ failed' = TRUE
  /\ handled' = <<>>
  /\ UNCHANGED <<requestId, eventSource, lastEventId, lastAcknowledgedEventId,
                 outstandingPokes, outstandingSubscriptions, promises, handed,
                 stream, serverSeq, opened, calls, everRegistered,
                 unackedEvent>>

\* ---- the server and the inbound stream ----
DigitChars == <<"0", "1", "2", "3", "4", "5", "6", "7", "8", "9">>

\* The decimal text of n, as the stream carries an event's sequence id.
RECURSIVE Decimal(_)
Decimal(n) ==
  IF n < 10 THEN <<DigitChars[n + 1]>>
  ELSE Decimal(n \div 10) \o <<DigitChars[(n % 10) + 1]>>

\* parseInt(s, 10) of a string of decimal digits.
RECURSIVE parseIntFrom(_, _)
parseIntFrom(s, acc) ==
  IF s = << >> THEN acc
  ELSE parseIntFrom(Tail(s),
                    10 * acc + (CHOOSE d \in 0..9 : DigitChars[d + 1] = Head(s)))

parseInt(s) == parseIntFrom(s, 0)

\* The bodies the server may push for request id i: the four response kinds
\* with and without their markers, and a kind the client does not know.
Bodies(i) ==
  {[id |-> i, response |-> "poke", ok |-> "null"]}
  \cup {[id |-> i, response |-> "poke", err |-> x] : x \in ErrPayloads}
  \cup {[id |-> i, response |-> "poke", ok |-> "null", err |-> x] : x \in ErrPayloads}
  \cup {[id |-> i, response |-> "poke"]}
  \cup {[id |-> i, response |-> "subscribe", ok |-> "null"]}
  \cup {[id |-> i, response |-> "subscribe", err |-> x] : x \in ErrPayloads}
  \cup {[id |-> i, response |-> "diff", json |-> x] : x \in JsonPayloads}
  \cup {[id |-> i, response |-> "quit"]}
  \cup {[id |-> i, response |-> "ping"]}

\* The server pushes an event about a request id it was sent a command for.
\* It may push before the client has connected: the event waits.  The stream
\* is one connection and carries its events one after the other, in order.
ServerPush(obj) ==
  /\ serverSeq < MaxEvents
  /\ stream = << >>
  /\ serverSeq' = serverSeq + 1
  /\ stream' = Append(stream, [lastEventId |-> Decimal(serverSeq + 1), data |-> obj])
  /\ fired' = << >>
  /\ threw' = FALSE
  /\ failed' = FALSE
  /\ handled' = <<>>
  /\ UNCHANGED <<requestId, eventSource, lastEventId, lastAcknowledgedEventId,
                 outstandingPokes, outstandingSubscriptions, promises, inflight,
                 handed, opened, calls, everRegistered,
                 unackedEvent>>

\* ---- eventSource.onmessage ----
\* Each branch gives the registries after it, the continuations it invoked,
\* and whether it ended in a TypeError (a property read of undefined).
\* The poke branch without its outstandingPokes.delete.
pokeBranchKeeps(obj, pokes, subs) ==
  IF "ok" \in DOMAIN obj
  THEN IF Has(pokes, obj.id)
       THEN [pokes |-> pokes, subs |-> subs, threw |-> FALSE,
             fired |-> <<Invoke(obj.id, "onSuccess", pokes[obj.id].onSuccess, << >>)>>]
       ELSE [pokes |-> pokes, subs |-> subs, threw |-> TRUE, fired |-> << >>]
  ELSE IF "err" \in DOMAIN obj /\ Has(pokes, obj.id)
  THEN [pokes |-> pokes, subs |-> subs, threw |-> FALSE,
        fired |-> <<Invoke(obj.id, "onFailure", pokes[obj.id].onFailure, <<obj.err>>)>>]
  ELSE [pokes |-> pokes, subs |-> subs, threw |-> FALSE, fired |-> << >>]

\* The poke branch calling onSuccess where it should call onFailure.
pokeBranchErrResolves(obj, pokes, subs) ==
  IF "ok" \in DOMAIN obj
  THEN IF Has(pokes, obj.id)
       THEN [pokes |-> MapDelete(pokes, obj.id), subs |-> subs, threw |-> FALSE,
             fired |-> <<Invoke(obj.id, "onSuccess", pokes[obj.id].onSuccess, << >>)>>]
       ELSE [pokes |-> pokes, subs |-> subs, threw |-> TRUE, fired |-> << >>]
  ELSE IF "err" \in DOMAIN obj /\ Has(pokes, obj.id)
  THEN [pokes |-> MapDelete(pokes, obj.id), subs |-> subs, threw |-> FALSE,
        fired |-> <<Invoke(obj.id, "onSuccess", pokes[obj.id].onSuccess, << >>)>>]
  ELSE [pokes |-> MapDelete(pokes, obj.id), subs |-> subs, threw |-> FALSE,
        fired |-> << >>]

pokeBranch(obj, pokes, subs) ==
  IF "ok" \in DOMAIN obj
  THEN IF Has(pokes, obj.id)
       THEN [pokes |-> MapDelete(pokes, obj.id), subs |-> subs, threw |-> FALSE,
             fired |-> <<Invoke(obj.id, "onSuccess", pokes[obj.id].onSuccess, << >>)>>]
       ELSE [pokes |-> pokes, subs |-> subs, threw |-> TRUE, fired |-> << >>]
  ELSE IF "err" \in DOMAIN obj /\ Has(pokes, obj.id)
  THEN [pokes |-> MapDelete(pokes, obj.id), subs |-> subs, threw |-> FALSE,
        fired |-> <<Invoke(obj.id, "onFailure", pokes[obj.id].onFailure, <<obj.err>>)>>]
  ELSE [pokes |-> MapDelete(pokes, obj.id), subs |-> subs, threw |-> FALSE,
        fired |-> << >>]

\* The subscribe branch dropping the entry on a bare success as well.
subscribeBranchOkRemoves(obj, pokes, subs) ==
  IF "err" \in DOMAIN obj
  THEN IF Has(subs, obj.id)
       THEN [pokes |-> pokes, subs |-> MapDelete(subs, obj.id), threw |-> FALSE,
             fired |-> <<Invoke(obj.id, "onError", subs[obj.id].onError, <<obj.err>>)>>]
       ELSE [pokes |-> pokes, subs |-> subs, threw |-> TRUE, fired |-> << >>]
  ELSE [pokes |-> pokes, subs |-> MapDelete(subs, obj.id), threw |-> FALSE,
        fired |-> << >>]

subscribeBranch(obj, pokes, subs) ==
  IF "err" \in DOMAIN obj
  THEN IF Has(subs, obj.id)
       THEN [pokes |-> pokes, subs |-> MapDelete(subs, obj.id), threw |-> FALSE,
             fired |-> <<Invoke(obj.id, "onError", subs[obj.id].onError, <<obj.err>>)>>]
       ELSE [pokes |-> pokes, subs |-> subs, threw |-> TRUE, fired |-> << >>]
  ELSE [pokes |-> pokes, subs |-> subs, threw |-> FALSE, fired |-> << >>]

\* The diff branch deleting the entry after the event, as the quit branch does.
diffBranchRemoves(obj, pokes, subs) ==
  IF Has(subs, obj.id)
  THEN [pokes |-> pokes, subs |-> MapDelete(subs, obj.id), threw |-> FALSE,
        fired |-> <<Invoke(obj.id, "onEvent", subs[obj.id].onEvent, <<obj.json>>)>>]
  ELSE [pokes |-> pokes, subs |-> subs, threw |-> TRUE, fired |-> << >>]

diffBranch(obj, pokes, subs) ==
  IF Has(subs, obj.id)
  THEN [pokes |-> pokes, subs |-> subs, threw |-> FALSE,
        fired |-> <<Invoke(obj.id, "onEvent", subs[obj.id].onEvent, <<obj.json>>)>>]
  ELSE [pokes |-> pokes, subs |-> subs, threw |-> TRUE, fired |-> << >>]

\* The quit branch clearing the registry where it should delete one key.
quitBranchClears(obj, pokes, subs) ==
  IF Has(subs, obj.id)
  THEN [pokes |-> pokes, subs |-> EmptyMap, threw |-> FALSE,
        fired |-> <<Invoke(obj.id, "onQuit", subs[obj.id].onQuit, <<obj>>)>>]
  ELSE [pokes |-> pokes, subs |-> subs, threw |-> TRUE, fired |-> << >>]

\* The quit branch without its outstandingSubscriptions.delete.
quitBranchKeeps(obj, pokes, subs) ==
  IF Has(subs, obj.id)
  THEN [pokes |-> pokes, subs |-> subs, threw |-> FALSE,
        fired |-> <<Invoke(obj.id, "onQuit", subs[obj.id].onQuit, <<obj>>)>>]
  ELSE [pokes |-> pokes, subs |-> subs, threw |-> TRUE, fired |-> << >>]

quitBranch(obj, pokes, subs) ==
  IF Has(subs, obj.id)
  THEN [pokes |-> pokes, subs |-> MapDelete(subs, obj.id), threw |-> FALSE,
        fired |-> <<Invoke(obj.id, "onQuit", subs[obj.id].onQuit, <<obj>>)>>]
  ELSE [pokes |-> pokes, subs |-> subs, threw |-> TRUE, fired |-> << >>]

\* A dispatch whose final else treats the event as a quit.
dispatchUnknownAsQuit(obj, pokes, subs) ==
  IF obj.response = "poke" THEN pokeBranch(obj, pokes, subs)
  ELSE IF obj.response = "subscribe" THEN subscribeBranch(obj, pokes, subs)
  ELSE IF obj.response = "diff" THEN diffBranch(obj, pokes, subs)
  ELSE quitBranch(obj, pokes, subs)

dispatch(obj, pokes, subs) ==
  IF obj.response = "poke" THEN pokeBranch(obj, pokes, subs)
  ELSE IF obj.response = "subscribe" THEN subscribeBranch(obj, pokes, subs)
  ELSE IF obj.response = "diff" THEN diffBranch(obj, pokes, subs)
  ELSE IF obj.response = "quit" THEN quitBranch(obj, pokes, subs)
  ELSE [pokes |-> pokes, subs |-> subs, threw |-> FALSE, fired |-> << >>]

onmessage ==
  /\ eventSource
  /\ stream # << >>
  /\ LET e == Head(stream)
         obj == e.data
         r == dispatch(obj, outstandingPokes, outstandingSubscriptions)
     IN /\ lastEventId' = parseInt(e.lastEventId)
        /\ outstandingPokes' = r.pokes
        /\ outstandingSubscriptions' = r.subs
        /\ fired' = r.fired
        /\ threw' = r.threw
        /\ promises' = RunPromises(promises, r.fired)
        /\ unackedEvent' = serverSeq
        /\ calls' = Count(calls, r.fired)
  /\ stream' = Tail(stream)
  /\ failed' = FALSE
  /\ handled' = <<Head(stream).data.response>>
  /\ UNCHANGED <<requestId, eventSource, lastAcknowledgedEventId, inflight,
                 handed, serverSeq, opened, everRegistered>>

\* eventSource.onerror: the handler is empty.
onerror ==
  /\ eventSource
  /\ fired' = << >>
  /\ threw' = FALSE
  /\ failed' = FALSE
  /\ handled' = <<>>
  /\ UNCHANGED <<requestId, eventSource, lastEventId, lastAcknowledgedEventId,
                 outstandingPokes, outstandingSubscriptions, promises, inflight,
                 handed, stream, serverSeq, opened, calls, everRegistered,
                 unackedEvent>>

\* ---- the specification ----
Init ==
  /\ requestId = 1
  /\ eventSource = FALSE
  /\ lastEventId = 0
  /\ lastAcknowledgedEventId = 0
  /\ outstandingPokes = EmptyMap
  /\ outstandingSubscriptions = EmptyMap
  /\ promises = EmptyMap
  /\ inflight = {}
  /\ handed = << >>
  /\ stream = << >>
  /\ serverSeq = 0
  /\ opened = 0
  /\ calls = [i \in 1..MaxCalls |-> [c \in ContNames |-> 0]]
  /\ everRegistered = {}
  /\ failed = FALSE
  /\ handled = <<>>
  /\ unackedEvent = 0
  /\ fired = << >>
  /\ threw = FALSE

Next ==
  \/ \E app \in Apps, cage \in Cages : poke(app, cage)
  \/ \E app \in Apps, path \in Paths, h \in HandlerObjects :
       subscribe(app, path, OutstandingSubscription(h))
  \/ \E s \in SubscribedIds : unsubscribe(s)
  \/ \E id \in inflight : RequestFulfilled(id)
  \/ \E id \in inflight : RequestRejected(id)
  \/ \E i \in HandedIds : \E obj \in Bodies(i) : ServerPush(obj)
  \/ onmessage
  \/ onerror

Spec == Init /\ [][Next]_vars

\* The channel over a transport whose requests all succeed in the end and
\* whose stream delivers the event in transit: no request is rejected, every
\* pending request is eventually fulfilled, and the message handler runs for
\* every event that has reached an open EventSource.
LiveNext ==
  \/ \E app \in Apps, cage \in Cages : poke(app, cage)
  \/ \E app \in Apps, path \in Paths, h \in HandlerObjects :
       subscribe(app, path, OutstandingSubscription(h))
  \/ \E s \in SubscribedIds : unsubscribe(s)
  \/ \E id \in inflight : RequestFulfilled(id)
  \/ \E i \in HandedIds : \E obj \in Bodies(i) : ServerPush(obj)
  \/ onmessage
  \/ onerror

LiveSpec ==
  /\ Init
  /\ [][LiveNext]_vars
  /\ WF_vars(\E id \in inflight : RequestFulfilled(id))
  /\ WF_vars(onmessage)

\* ---- steps, as seen in a pair of states ----
\* One inbound event is dispatched: the event in transit leaves the stream.
DispatchStep == stream # << >> /\ stream' = << >>

\* poke, subscribe or unsubscribe is called: one more body is handed over.
CallStep == Len(handed') = Len(handed) + 1

\* The number of terminal continuations of a poke invoked so far.
PokeEnds(id) == calls[id]["onSuccess"] + calls[id]["onFailure"]

\* The number of terminal continuations of a subscription invoked so far.
SubscriptionEnds(c, id) == c[id]["onQuit"] + c[id]["onError"]

\* The registry an inbound event's request id is looked up in, if any.
RelevantMiss(obj) ==
  \/ obj.response = "poke" /\ ~Has(outstandingPokes, obj.id)
  \/ obj.response \in {"subscribe", "diff", "quit"}
       /\ ~Has(outstandingSubscriptions, obj.id)

\* ---- the claims ----

\* C1: the k-th call of poke, subscribe and unsubscribe, counting the three
\* kinds together, is issued request id k, and the counter is one past the
\* number of calls made.
C1_IdsInSequence ==
  /\ \A k \in 1..Len(handed) : Command(handed[k]).id = k
  /\ requestId = Len(handed) + 1

C1_Witness ==
  /\ Len(handed) = 2
  /\ Command(handed[1]).action = "subscribe"
  /\ Command(handed[2]).action = "unsubscribe"
  /\ Command(handed[2]).id = 2

\* C2: for every poke, onSuccess and onFailure are invoked at most once
\* between them, and once one has been invoked the poke registry holds no
\* entry for the poke's request id.
C2_PokeEndsOnce ==
  \A id \in DOMAIN promises :
    /\ PokeEnds(id) <= 1
    /\ PokeEnds(id) = 1 => ~Has(outstandingPokes, id)

\* A poke has failed, and a second event has been dispatched after it.
C2_Witness ==
  \E id \in DOMAIN promises :
    /\ calls[id]["onFailure"] = 1
    /\ calls[id]["onSuccess"] = 0
    /\ ~Has(outstandingPokes, id)
    /\ Len(handed) = 1
    /\ serverSeq = 2
    /\ stream = << >>

\* C3: a poke response for a registered request id resolves the promise when
\* the body carries ok, and rejects it with the body's err when the body
\* carries err and no ok; nothing else is invoked.
C3_OutcomeFollowsMarker ==
  [][DispatchStep =>
       LET obj == Head(stream).data IN
       (obj.response = "poke" /\ Has(outstandingPokes, obj.id)) =>
         /\ "ok" \in DOMAIN obj =>
              /\ promises'[obj.id] = [state |-> "fulfilled"]
              /\ fired' = <<Invoke(obj.id, "onSuccess",
                                   OutstandingPoke(obj.id).onSuccess, << >>)>>
         /\ ("err" \in DOMAIN obj /\ "ok" \notin DOMAIN obj) =>
              /\ promises'[obj.id] = [state |-> "rejected", reason |-> obj.err]
              /\ fired' = <<Invoke(obj.id, "onFailure",
                                   OutstandingPoke(obj.id).onFailure, <<obj.err>>)>>
    ]_vars

C3_Witness ==
  \E id \in DOMAIN promises :
    /\ promises[id] = [state |-> "rejected", reason |-> "bad-request"]
    /\ Len(fired) = 1
    /\ fired[1].name = "onFailure"
    /\ fired[1].id = id

\* C4: onQuit and onError are invoked at most once between them for a
\* subscription; once one has been invoked the entry is gone and no later
\* step invokes any continuation of that subscription.
C4_SubscriptionEndsOnce ==
  [][\A id \in 1..MaxCalls :
       /\ SubscriptionEnds(calls', id) <= 1
       /\ SubscriptionEnds(calls', id) = 1 => ~Has(outstandingSubscriptions', id)
       /\ SubscriptionEnds(calls, id) = 1 => calls'[id] = calls[id]
    ]_vars

\* A subscription got an event and then its quit, and a later event found no
\* entry.
C4_Witness ==
  /\ Len(handed) = 1
  /\ calls[1]["onQuit"] = 1
  /\ ~Has(outstandingSubscriptions, 1)
  /\ serverSeq = 2
  /\ stream = << >>
  /\ threw

\* C5: an inbound event whose request id has no entry in the registry its
\* response kind is looked up in invokes nothing, throws nothing and leaves
\* both registries as they were.
C5_MissIsNoOp ==
  [][DispatchStep =>
       (RelevantMiss(Head(stream).data) =>
          /\ fired' = << >>
          /\ ~threw'
          /\ outstandingPokes' = outstandingPokes
          /\ outstandingSubscriptions' = outstandingSubscriptions)
    ]_vars

\* The command handed over by a call step.
NewCommand == Command(handed'[Len(handed')])

\* The action of the command that was issued request id i.
ActionOf(i) ==
  LET ks == {k \in 1..Len(handed) : Command(handed[k]).id = i}
  IN IF ks = {} THEN "none" ELSE Command(handed[CHOOSE k \in ks : TRUE]).action

\* unsubscribe has been called for the subscription s.
Unsubscribed(s) ==
  \E k \in 1..Len(handed) :
    /\ Command(handed[k]).action = "unsubscribe"
    /\ Command(handed[k]).subscription = s

\* The continuations of the records registered under request id x.
ContinuationsOf(x) ==
  (IF Has(outstandingPokes, x)
   THEN {outstandingPokes[x].onSuccess, outstandingPokes[x].onFailure}
   ELSE {})
  \cup (IF Has(outstandingSubscriptions, x)
        THEN {outstandingSubscriptions[x].onError,
              outstandingSubscriptions[x].onEvent,
              outstandingSubscriptions[x].onQuit}
        ELSE {})

\* C6: every request id that poke or subscribe has handed to the transport
\* was entered in its registry by then, so an event in transit about such an
\* id is never about an id that was never registered.
C6_RegisteredBeforeSent ==
  /\ \A k \in 1..Len(handed) :
       Command(handed[k]).action \in {"poke", "subscribe"}
         => Command(handed[k]).id \in everRegistered
  /\ \A n \in 1..Len(stream) :
       ActionOf(stream[n].data.id) \in {"poke", "subscribe"}
         => stream[n].data.id \in everRegistered

\* A poke response is in transit while the poke's own request is pending.
C6_Witness ==
  /\ stream # << >>
  /\ stream[1].data.response = "poke"
  /\ Has(outstandingPokes, stream[1].data.id)
  /\ stream[1].data.id \in inflight

\* C7: unsubscribe takes a new request id and hands over an unsubscribe
\* command without touching either registry; a subscription's entry leaves
\* the registry only in the dispatch of a quit or subscribe-error event for
\* its id; a diff for an unsubscribed subscription that is still registered
\* is delivered to its onEvent.
C7_UnsubscribeLeavesEntry ==
  [][/\ (CallStep /\ NewCommand.action = "unsubscribe") =>
          /\ NewCommand.id = requestId
          /\ requestId' = requestId + 1
          /\ outstandingPokes' = outstandingPokes
          /\ outstandingSubscriptions' = outstandingSubscriptions
     /\ \A id \in DOMAIN outstandingSubscriptions :
          ~Has(outstandingSubscriptions', id) =>
            /\ DispatchStep
            /\ Head(stream).data.id = id
            /\ \/ Head(stream).data.response = "quit"
               \/ /\ Head(stream).data.response = "subscribe"
                  /\ "err" \in DOMAIN Head(stream).data
     /\ (/\ DispatchStep
         /\ Head(stream).data.response = "diff"
         /\ Has(outstandingSubscriptions, Head(stream).data.id)
         /\ Unsubscribed(Head(stream).data.id)) =>
          /\ Len(fired') = 1
          /\ fired'[1].name = "onEvent"
          /\ fired'[1].fn = outstandingSubscriptions[Head(stream).data.id].onEvent
    ]_vars

\* The unsubscribe batch carries no ack, so no event had been dispatched when
\* it was sent; a diff for the subscription has been delivered since and the
\* entry is still registered.
C7_Witness ==
  /\ Len(handed) = 2
  /\ Command(handed[2]).action = "unsubscribe"
  /\ Command(handed[2]).subscription = 1
  /\ Len(handed[2]) = 1
  /\ Has(outstandingSubscriptions, 1)
  /\ Len(fired) = 1
  /\ fired[1].name = "onEvent"
  /\ fired[1].id = 1

\* C8: a diff for a registered subscription invokes its onEvent once, with
\* the event's json, and leaves both registries as they were.
C8_DiffKeepsEntry ==
  [][DispatchStep =>
       LET obj == Head(stream).data IN
       (obj.response = "diff" /\ Has(outstandingSubscriptions, obj.id)) =>
         /\ fired' = <<Invoke(obj.id, "onEvent",
                              outstandingSubscriptions[obj.id].onEvent, <<obj.json>>)>>
         /\ calls'[obj.id]["onEvent"] = calls[obj.id]["onEvent"] + 1
         /\ outstandingSubscriptions' = outstandingSubscriptions
         /\ outstandingPokes' = outstandingPokes
    ]_vars

C8_Witness ==
  \E id \in DOMAIN outstandingSubscriptions :
    /\ calls[id]["onEvent"] = 2
    /\ SubscriptionEnds(calls, id) = 0

\* C9: the dispatch of an event carrying request id x invokes only
\* continuations of the records registered under x, and leaves every registry
\* entry, promise and invocation count of every other id as it was.
C9_DemuxById ==
  [][DispatchStep =>
       LET x == Head(stream).data.id IN
       /\ \A y \in (DOMAIN outstandingPokes \cup DOMAIN outstandingPokes') \ {x} :
            /\ Has(outstandingPokes, y)
            /\ Has(outstandingPokes', y)
            /\ outstandingPokes'[y] = outstandingPokes[y]
       /\ \A y \in (DOMAIN outstandingSubscriptions
                      \cup DOMAIN outstandingSubscriptions') \ {x} :
            /\ Has(outstandingSubscriptions, y)
            /\ Has(outstandingSubscriptions', y)
            /\ outstandingSubscriptions'[y] = outstandingSubscriptions[y]
       /\ \A y \in DOMAIN promises \ {x} : promises'[y] = promises[y]
       /\ \A y \in (1..MaxCalls) \ {x} : calls'[y] = calls[y]
       /\ \A n \in 1..Len(fired') :
            /\ fired'[n].id = x
            /\ fired'[n].fn \in ContinuationsOf(x)
    ]_vars

\* The second command's request completed first and its response has been
\* dispatched, while the first command's request is still pending and its
\* subscription still registered.
C9_Witness ==
  /\ Has(outstandingSubscriptions, 1)
  /\ Has(promises, 2)
  /\ promises[2].state = "fulfilled"
  /\ inflight = {1}
  /\ Len(fired) = 1
  /\ fired[1].id = 2

\* C10: poke leaves its promise pending and its entry registered; afterwards
\* the promise changes, and the entry leaves the registry, only in the
\* dispatch of a poke response for the poke's request id, never when a
\* request completes or fails.
C10_SettledByEventOnly ==
  [][/\ (CallStep /\ NewCommand.action = "poke") =>
          /\ promises'[NewCommand.id] = [state |-> "pending"]
          /\ Has(outstandingPokes', NewCommand.id)
     /\ \A id \in DOMAIN promises :
          promises'[id] # promises[id] =>
            /\ DispatchStep
            /\ Head(stream).data.response = "poke"
            /\ Head(stream).data.id = id
     /\ \A id \in DOMAIN outstandingPokes :
          ~Has(outstandingPokes', id) =>
            /\ DispatchStep
            /\ Head(stream).data.response = "poke"
            /\ Head(stream).data.id = id
    ]_vars

\* Every request has failed (none is pending and the stream was never
\* opened), and a poke is still pending and registered.
C10_Witness ==
  \E id \in DOMAIN promises :
    /\ promises[id].state = "pending"
    /\ Has(outstandingPokes, id)
    /\ inflight = {}
    /\ ~eventSource
    /\ Len(handed) = 2

\* The poke responses that carry one marker, for request id i.
MarkedPokeResponses(i) ==
  {[id |-> i, response |-> "poke", ok |-> "null"]}
  \cup {[id |-> i, response |-> "poke", err |-> x] : x \in ErrPayloads}

\* The promise a poke response with one marker settles to.
SettledAs(obj) ==
  IF "ok" \in DOMAIN obj THEN [state |-> "fulfilled"]
  ELSE [state |-> "rejected", reason |-> obj.err]

\* C11: over a transport whose requests succeed and whose stream delivers,
\* once the server has pushed the poke response, carrying ok or err, for a
\* poke that is still registered, the poke's promise is eventually resolved
\* (ok) or rejected with the error (err) and its entry eventually leaves the
\* registry.
C11_PokeEventuallySettled ==
  \A i \in 1..MaxCalls : \A obj \in MarkedPokeResponses(i) :
    (/\ stream # << >>
     /\ Head(stream).data = obj
     /\ Has(outstandingPokes, i))
    ~> (/\ Has(promises, i)
        /\ promises[i] = SettledAs(obj)
        /\ ~Has(outstandingPokes, i))

\* A poke was rejected by its response after every request had succeeded.
C11_Witness ==
  \E i \in DOMAIN promises :
    /\ promises[i].state = "rejected"
    /\ ~Has(outstandingPokes, i)
    /\ inflight = {}
    /\ opened = 1

\* The batch body handed over by a call step.
NewBody == handed'[Len(handed')]

\* C12: a send that finds lastEventId different from
\* lastAcknowledgedEventId puts an ack of lastEventId before the command and
\* sets lastAcknowledgedEventId to that value, so that the two are equal,
\* at the value observed, after the send.
C12_AckAdvancesAcknowledged ==
  [][(CallStep /\ lastEventId # lastAcknowledgedEventId) =>
       /\ Len(NewBody) = 2
       /\ NewBody[1] = AckCommand(lastEventId)
       /\ lastAcknowledgedEventId' = lastEventId
       /\ lastEventId' = lastEventId
    ]_vars

C14_ConnectOnce ==
  /\ opened <= 1
  /\ eventSource <=> opened = 1

\* Two commands were sent, both requests have completed without the last
\* one failing, an event has been dispatched, and one connection is open.
C14_Witness ==
  /\ Len(handed) = 2
  /\ inflight = {}
  /\ ~failed
  /\ handled # <<>>
  /\ eventSource
  /\ opened = 1

\* ---- C15 ----
RequestEnds == inflight' # inflight /\ inflight' \subseteq inflight

\* C15: the stream handle is absent until a request is fulfilled: it appears
\* only in a step in which a request completes without failing, a rejected
\* request leaves the handle and the number of connections as they were,
\* an event is dispatched or a continuation invoked only while the handle
\* exists, and an existing handle is never cleared or replaced.
C15_LazyConnection ==
  [][/\ (~eventSource /\ eventSource') => (RequestEnds /\ ~failed')
     /\ failed' => (eventSource' = eventSource /\ opened' = opened)
     /\ (DispatchStep \/ fired' # << >>) => eventSource
     /\ eventSource => (eventSource' /\ opened' = opened)]_vars

\* A request has just been rejected while an event is waiting on the server
\* side, and the channel still has no stream handle.
C15_Witness ==
  /\ failed
  /\ ~eventSource
  /\ opened = 0
  /\ stream # << >>

\* ---- C16 ----
\* C16: a poke whose entry has left outstandingPokes has had a continuation
\* fired: its promise is settled, whatever response removed the entry, a
\* poke response with neither ok nor err included.
C16_RemovedMeansSettled ==
  \A id \in DOMAIN promises :
    ~Has(outstandingPokes, id) => promises[id].state # "pending"

\* ---- C17 ----
\* C17: a subscribe acknowledgement for a registered subscription that
\* carries err invokes onError with the error, and nothing else, and removes
\* the entry; one without err invokes nothing and leaves the entry in the
\* registry, where later diff events find it. Neither touches the pokes.
C17_SubscribeAck ==
  [][\A id \in DOMAIN outstandingSubscriptions :
       (/\ DispatchStep
        /\ Head(stream).data.response = "subscribe"
        /\ Head(stream).data.id = id)
       => LET obj == Head(stream).data IN
          /\ outstandingPokes' = outstandingPokes
          /\ ~threw'
          /\ IF "err" \in DOMAIN obj
             THEN /\ fired' = <<Invoke(id, "onError",
                                       outstandingSubscriptions[id].onError,
                                       <<obj.err>>)>>
                  /\ outstandingSubscriptions' =
                       MapDelete(outstandingSubscriptions, id)
             ELSE /\ fired' = << >>
                  /\ outstandingSubscriptions' = outstandingSubscriptions]_vars

\* A subscribe acknowledgement carrying err has just been dispatched: onError
\* ran once with the error and the subscription is gone.
C17_Witness ==
  /\ handled = <<"subscribe">>
  /\ Len(fired) = 1
  /\ fired[1].name = "onError"
  /\ fired[1].args = <<"bad-request">>
  /\ calls[fired[1].id]["onError"] = 1
  /\ fired[1].id \in everRegistered
  /\ ~Has(outstandingSubscriptions, fired[1].id)

\* ---- C18 ----
KnownResponses == {"poke", "subscribe", "diff", "quit"}

C19_TransportFailureKeepsState ==
  [][(failed' \/ (~CallStep /\ ~DispatchStep)) =>
       UNCHANGED <<outstandingPokes, outstandingSubscriptions, promises,
                   requestId, lastEventId, lastAcknowledgedEventId>>]_vars

\* The request of the only command sent, a poke, has just been rejected: its
\* entry is still registered and its promise still pending.
C19_Witness ==
  /\ failed
  /\ Len(handed) = 1
  /\ inflight = {}
  /\ Has(outstandingPokes, 1)
  /\ promises[1].state = "pending"

\* ---- C20 ----
\* C20: lastEventId is written by the dispatch of an event only: a send
\* leaves it unchanged, it never decreases, and lastAcknowledgedEventId
\* never exceeds it.
C20_ObservedOnlyByDispatch ==
  [][/\ CallStep => lastEventId' = lastEventId
     /\ lastEventId' # lastEventId => DispatchStep
     /\ lastEventId' >= lastEventId
     /\ lastAcknowledgedEventId' <= lastEventId']_vars

====
